---- MODULE Spec2Model ----
(***************************************************************************)
(* A model of data_gen/generate_database.py: the loan/customer fixture     *)
(* generator.  Three entry points are modelled, each with its own          *)
(* specification:                                                          *)
(*   SpecRow    generate_loan_info_row          (the date chain)           *)
(*   SpecAssoc  associate_loans_with_customers  (any counts)               *)
(*   Spec       generate_all                    (the default counts)       *)
(* Every random draw of the code is a nondeterministic choice.             *)
(***************************************************************************)
EXTENDS Integers, Sequences, FiniteSets

VARIABLES
    entry,               \* the entry point being run
    pc,                  \* the position of the run in the code
    \* associate_loans_with_customers
    num_customers,       \* parameter
    num_loans,           \* parameter
    loan_ids,            \* the pool, a list
    loan_customer_list,  \* the records appended so far
    customer_id,         \* the outer loop's variable
    draws_left,          \* iterations the inner loop still has to run
    fanouts,             \* the values random.choices returned, in order
    assoc_return,        \* <<>> until the call returns, then <<the list>>
    \* generate_loan_info_row
    row,                 \* the locals drawn so far, a record
    row_return,          \* <<>> until the call returns, then <<the row>>
    \* generate_all
    customers,
    loan_info,
    lenders,
    statuses,
    dataset              \* <<>> until generate_all returns, then <<the dict>>

assocVars == <<num_customers, num_loans, loan_ids, loan_customer_list,
               customer_id, draws_left, fanouts, assoc_return>>
rowVars == <<row, row_return>>
allVars == <<customers, loan_info, lenders, statuses, dataset>>
vars == <<entry, pc, assocVars, rowVars, allVars>>

----------------------------------------------------------------------------
(* Bounds of the model. *)

\* SpecAssoc calls associate_loans_with_customers with 0..MaxCustomers
\* customers and 0..MaxLoans loans.
MaxCustomers == 2
MaxLoans == 5
\* DEFAULT_CUSTOMER_NUMBER is 100 in the source; the model runs generate_all
\* with this many customers instead, and keeps every count derived from it.
ScaledCustomerNumber == 1
\* Under generate_all the index passed to loan_ids.pop ranges over
\* 0..MaxPopIndex (and never beyond the list); under SpecAssoc it ranges over
\* the whole list.
MaxPopIndex == 0
\* generate_loan_info_row runs at instant Now, NowDay days and one tick after
\* the epoch; a day has TicksPerDay instants.
NowDay == 11
TicksPerDay == 2

----------------------------------------------------------------------------
(* Constants of the program. *)

DEFAULT_CUSTOMER_NUMBER == ScaledCustomerNumber
LOANS_PER_CUSTOMER == 5
DEFAULT_LOANS_MAX_NUMBER == LOANS_PER_CUSTOMER * DEFAULT_CUSTOMER_NUMBER
LOAN_STATUSES == <<"GREEN", "YELLOW", "RED">>
DEFAULT_NUM_LENDERS == 5

----------------------------------------------------------------------------
(* Helpers. *)

Min(a, b) == IF a <= b THEN a ELSE b

\* list(range(n))
RangeList(n) == [i \in 1..(IF n > 0 THEN n ELSE 0) |-> i - 1]

RECURSIVE SumSeq(_)
SumSeq(s) == IF s = <<>> THEN 0 ELSE Head(s) + SumSeq(Tail(s))

\* random.randint(a, b): any integer of a..b; raises ValueError when a > b.
RandintRaises(a, b) == a > b

----------------------------------------------------------------------------
(* associate_loans_with_customers *)

\* Variants of FanOutChoices: a population that starts at 0, one that ends
\* at 6.
FanOutWithZero == 0..5
FanOutUpToSix == 1..6
\* random.choices([1, 2, 3, 4, 5], weights=...)[0]: every weight is positive.
FanOutChoices == 1..5

\* The indices random.randint(0, n - 1) is explored at, for a pool of n.
PopIndexes(n) ==
    IF entry = "generate_all" THEN 0..Min(n - 1, MaxPopIndex) ELSE 0..(n - 1)

\* Variant of PopAt: the element is read and left in the list.
PopKeepsElement(s, i) == s
\* list.pop(i), i counted from 0: the list without its element i.
PopAt(s, i) == [j \in 1..(Len(s) - 1) |-> IF j <= i THEN s[j] ELSE s[j + 1]]

CustomerLoan(l, c) == [loan_id |-> l, customer_id |-> c]

\* loan_ids = list(range(num_loans)); loan_customer_list = []
AssociateBegin ==
    /\ pc = "associate"
    /\ loan_ids' = RangeList(num_loans)
    /\ loan_customer_list' = <<>>
    /\ customer_id' = 0
    /\ pc' = "for_customer"
    /\ UNCHANGED <<entry, num_customers, num_loans, draws_left, fanouts,
                   assoc_return, rowVars, allVars>>

\* for customer_id in range(num_customers): draw the fan-out.
SampleFanOut ==
    /\ pc = "for_customer"
    /\ customer_id < num_customers
    /\ \E k \in FanOutChoices :
          /\ draws_left' = k
          /\ fanouts' = Append(fanouts, k)
    /\ pc' = "for_draw"
    /\ UNCHANGED <<entry, num_customers, num_loans, loan_ids,
                   loan_customer_list, customer_id, assoc_return, rowVars,
                   allVars>>

\* Variant of RaisesValueError: the draw on an empty pool is skipped.
SkipsTheDraw ==
    /\ draws_left' = draws_left - 1
    /\ UNCHANGED <<pc, loan_ids, loan_customer_list>>
\* random.randint(0, -1) raises ValueError, which nothing catches: the call
\* ends there and returns nothing.
RaisesValueError ==
    /\ pc' = "error"
    /\ UNCHANGED <<draws_left, loan_ids, loan_customer_list>>

\* One iteration of the inner loop:
\* loan_id = loan_ids.pop(random.randint(0, len(loan_ids) - 1)), then the
\* append of CustomerLoan(loan_id, customer_id).
DrawLoan ==
    /\ pc = "for_draw"
    /\ draws_left > 0
    /\ IF RandintRaises(0, Len(loan_ids) - 1)
       THEN RaisesValueError
       ELSE /\ \E i \in PopIndexes(Len(loan_ids)) :
                  /\ loan_customer_list' =
                        Append(loan_customer_list,
                               CustomerLoan(loan_ids[i + 1], customer_id))
                  /\ loan_ids' = PopAt(loan_ids, i)
            /\ draws_left' = draws_left - 1
            /\ pc' = pc
    /\ UNCHANGED <<entry, num_customers, num_loans, customer_id, fanouts,
                   assoc_return, rowVars, allVars>>

\* The inner loop is over: the outer loop takes the next customer.
NextCustomer ==
    /\ pc = "for_draw"
    /\ draws_left = 0
    /\ customer_id' = customer_id + 1
    /\ pc' = "for_customer"
    /\ UNCHANGED <<entry, num_customers, num_loans, loan_ids,
                   loan_customer_list, draws_left, fanouts, assoc_return,
                   rowVars, allVars>>

\* return loan_customer_list
AssociateReturn ==
    /\ pc = "for_customer"
    /\ customer_id >= num_customers
    /\ assoc_return' = <<loan_customer_list>>
    /\ pc' = IF entry = "generate_all" THEN "assemble" ELSE "returned"
    /\ UNCHANGED <<entry, num_customers, num_loans, loan_ids,
                   loan_customer_list, customer_id, draws_left, fanouts,
                   rowVars, allVars>>

Associate ==
    \/ AssociateBegin
    \/ SampleFanOut
    \/ DrawLoan
    \/ NextCustomer
    \/ AssociateReturn

\* The state every entry point starts from, but for entry, pc and the
\* parameters of the call.
Blank ==
    /\ loan_ids = <<>>
    /\ loan_customer_list = <<>>
    /\ customer_id = 0
    /\ draws_left = 0
    /\ fanouts = <<>>
    /\ assoc_return = <<>>
    /\ row = [pending |-> TRUE]
    /\ row_return = <<>>
    /\ customers = <<>>
    /\ loan_info = [loan_id |-> <<>>, lender_id |-> {}]
    /\ lenders = <<>>
    /\ statuses = <<>>
    /\ dataset = <<>>

InitAssoc ==
    /\ entry = "associate"
    /\ pc = "associate"
    /\ num_customers \in 0..MaxCustomers
    /\ num_loans \in 0..MaxLoans
    /\ Blank

NextAssoc == Associate

SpecAssoc == InitAssoc /\ [][NextAssoc]_vars

----------------------------------------------------------------------------
(* Claims about associate_loans_with_customers, under SpecAssoc. *)

\* What a returned association list is made of.
Returned == pc = "returned" /\ Len(assoc_return) = 1
Result == assoc_return[1]
LoanIdsOf(list) == {list[j].loan_id : j \in 1..Len(list)}
RecordsOfCustomer(list, c) == {j \in 1..Len(list) : list[j].customer_id = c}

\* C1: whenever associate_loans_with_customers returns a list, no loan_id
\* occurs in more than one record of it, every loan_id lies in
\* 0..num_loans-1, and the number of records is the sum of the fan-out
\* counts drawn, which is at most num_loans.
C1_LoanIdsUnique ==
    Returned =>
        /\ \A i, j \in 1..Len(Result) :
              Result[i].loan_id = Result[j].loan_id => i = j
        /\ LoanIdsOf(Result) \subseteq 0..(num_loans - 1)
        /\ Len(Result) = SumSeq(fanouts)
        /\ Len(Result) <= num_loans

\* A call with two customers returned a list that used up the whole pool.
C1_Witness ==
    /\ Returned
    /\ num_customers = 2
    /\ Len(Result) = num_loans
    /\ Len(Result) >= 3

\* C2: a draw attempted on an empty pool ends the call in an error and no
\* list is returned, neither then nor later; so a call whose fan-out demand
\* exceeds num_loans (as it must when num_loans < num_customers) never
\* returns.
C2_EmptyPoolDrawRaises ==
    /\ [][(pc = "for_draw" /\ draws_left > 0 /\ Len(loan_ids) = 0)
            => (pc' = "error" /\ assoc_return' = <<>>)]_vars
    /\ [](pc = "error" => assoc_return = <<>>)
    /\ [](SumSeq(fanouts) > num_loans => ~Returned)
    /\ [](num_loans < num_customers => ~Returned)

\* The call failed after it had appended every loan of a non-empty pool.
C2_Witness ==
    /\ pc = "error"
    /\ num_loans > 0
    /\ Len(loan_customer_list) = num_loans
    /\ num_loans < num_customers

----------------------------------------------------------------------------
(* generate_loan_info_row: the date chain.  An instant is a number of ticks
   since the epoch (a POSIX timestamp), a date a number of days since the
   epoch.  Faker is a library: fake.date_time() is an instant of the epoch
   .. now, and fake.date_between_dates(a, b) turns a and b into timestamps
   (a date into its midnight), draws a timestamp between them and returns
   its date. *)

NEXT_PAYMENT_MIN_DAYS == 10
PREVIOUS_PAYMENT_MIN_DAYS == 7
PREVIOUS_PAYMENT_MAX_DAYS == 70

\* datetime.now(UTC)
Now == NowDay * TicksPerDay + 1

\* timedelta(days=n)
Days(n) == n * TicksPerDay

\* datetime.date(): the day an instant falls in.
DateOf(t) == t \div TicksPerDay

\* The timestamp of a date: its midnight.
Midnight(d) == d * TicksPerDay

Drawn(d) == [raised |-> FALSE, date |-> d]
Raised == [raised |-> TRUE, date |-> 0]

\* The outcomes of fake.date_between_dates(lo, hi), lo and hi timestamps.
\* With lo > hi the outcome depends on the Faker release: the ones that draw
\* with random.randint raise ValueError, the ones that draw with
\* random.uniform return a date of hi..lo.
date_between_dates(lo, hi) ==
    IF lo <= hi
    THEN {Drawn(DateOf(t)) : t \in lo..hi}
    ELSE {Raised} \cup {Drawn(DateOf(t)) : t \in hi..lo}

\* Variant of PreviousPaymentDays: random.randint(7, 71).
PreviousPaymentDaysUpTo71 == PREVIOUS_PAYMENT_MIN_DAYS..(PREVIOUS_PAYMENT_MAX_DAYS + 1)
\* random.randint(7, 70)
PreviousPaymentDays == PREVIOUS_PAYMENT_MIN_DAYS..PREVIOUS_PAYMENT_MAX_DAYS

\* Variant of PreviousPaymentStart: the days are added.
PreviousPaymentAfterRecorded(recorded, d) == recorded + Days(d)
\* recorded - timedelta(days=d)
PreviousPaymentStart(recorded, d) == recorded - Days(d)

\* recorded = fake.date_time()
DrawRecorded ==
    /\ pc = "recorded"
    /\ \E t \in 0..Now : row' = [recorded |-> t]
    /\ pc' = "next_payment_on"
    /\ UNCHANGED <<entry, assocVars, row_return, allVars>>

\* next_payment_on = fake.date_between_dates(recorded + 10 days, now)
DrawNextPayment ==
    /\ pc = "next_payment_on"
    /\ \E out \in date_between_dates(
                     row.recorded + Days(NEXT_PAYMENT_MIN_DAYS), Now) :
          IF out.raised
          THEN pc' = "error" /\ row' = row
          ELSE /\ row' = [recorded |-> row.recorded,
                          next_payment_on |-> out.date]
               /\ pc' = "previous_payment_on"
    /\ UNCHANGED <<entry, assocVars, row_return, allVars>>

\* previous_payment_on = fake.date_between_dates(
\*     recorded - timedelta(days=random.randint(7, 70)), recorded)
DrawPreviousPayment ==
    /\ pc = "previous_payment_on"
    /\ \E d \in PreviousPaymentDays :
          \E out \in date_between_dates(
                        PreviousPaymentStart(row.recorded, d), row.recorded) :
             IF out.raised
             THEN pc' = "error" /\ row' = row
             ELSE /\ row' = [recorded |-> row.recorded,
                             next_payment_on |-> row.next_payment_on,
                             previous_payment_on |-> out.date]
                  /\ pc' = "followup_on"
    /\ UNCHANGED <<entry, assocVars, row_return, allVars>>

\* followup_on = fake.date_between_dates(previous_payment_on, next_payment_on)
DrawFollowup ==
    /\ pc = "followup_on"
    /\ \E out \in date_between_dates(Midnight(row.previous_payment_on),
                                     Midnight(row.next_payment_on)) :
          IF out.raised
          THEN pc' = "error" /\ row' = row
          ELSE /\ row' = [recorded |-> row.recorded,
                          next_payment_on |-> row.next_payment_on,
                          previous_payment_on |-> row.previous_payment_on,
                          followup_on |-> out.date]
               /\ pc' = "return_row"
    /\ UNCHANGED <<entry, assocVars, row_return, allVars>>

\* return asdict(LoanInfo(...)): the date fields of the row.
ReturnRow ==
    /\ pc = "return_row"
    /\ row_return' = <<[recorded_on |-> row.recorded,
                        followup_on |-> row.followup_on,
                        previous_payment_on |-> row.previous_payment_on,
                        next_payment_on |-> row.next_payment_on]>>
    /\ pc' = "returned"
    /\ UNCHANGED <<entry, assocVars, row, allVars>>

InitRow ==
    /\ entry = "row"
    /\ pc = "recorded"
    /\ num_customers = 0
    /\ num_loans = 0
    /\ Blank

NextRow ==
    \/ DrawRecorded
    \/ DrawNextPayment
    \/ DrawPreviousPayment
    \/ DrawFollowup
    \/ ReturnRow

SpecRow == InitRow /\ [][NextRow]_vars

----------------------------------------------------------------------------
(* Claims about generate_loan_info_row, under SpecRow. *)

RowReturned == pc = "returned" /\ Len(row_return) = 1
TheRow == row_return[1]

\* C3: every row generate_loan_info_row returns has
\* previous_payment_on <= followup_on <= next_payment_on.
C3_DatesOrdered ==
    RowReturned =>
        /\ TheRow.previous_payment_on <= TheRow.followup_on
        /\ TheRow.followup_on <= TheRow.next_payment_on

\* A row came back with the follow-up strictly between the two payments.
C3_Witness ==
    /\ RowReturned
    /\ TheRow.previous_payment_on < TheRow.followup_on
    /\ TheRow.followup_on < TheRow.next_payment_on

\* C4: generate_loan_info_row never fails: each of its three interval draws
\* is made on an interval whose lower bound is not after its upper bound,
\* for every recorded_on of the epoch .. now, and no draw raises.
C4_DrawsWellFormed ==
    /\ pc # "error"
    /\ pc = "next_payment_on" =>
          row.recorded + Days(NEXT_PAYMENT_MIN_DAYS) <= Now
    /\ pc = "previous_payment_on" =>
          \A d \in PreviousPaymentDays :
             PreviousPaymentStart(row.recorded, d) <= row.recorded
    /\ pc = "followup_on" =>
          Midnight(row.previous_payment_on) <= Midnight(row.next_payment_on)

\* C5 as stated: in every returned row previous_payment_on is at least 7 and
\* at most 70 days before recorded_on.
C5_Original ==
    RowReturned =>
        /\ DateOf(TheRow.recorded_on) - TheRow.previous_payment_on >= 7
        /\ DateOf(TheRow.recorded_on) - TheRow.previous_payment_on <= 70

\* C5 as amended: in every returned row previous_payment_on is not after
\* the date of recorded_on and at most 70 days before it.
C5_PreviousPaymentWindow ==
    RowReturned =>
        /\ TheRow.previous_payment_on <= DateOf(TheRow.recorded_on)
        /\ DateOf(TheRow.recorded_on) - TheRow.previous_payment_on <= 70

\* A row came back whose previous payment is a full 70 days back.
C5_Witness ==
    /\ RowReturned
    /\ DateOf(TheRow.recorded_on) - TheRow.previous_payment_on = 70

----------------------------------------------------------------------------
(* generate_all, and the builders it calls with their default counts.  A
   table is held by the columns the claims read: an id column as the list
   of its values, loan_info's lender_id column as the set of its values. *)

\* Variant of CustomerIndexes: range(0, n).
CustomerIndexesExclusive(n) == RangeList(n)
\* range(0, n + 1) of generate_customers
CustomerIndexes(n) == RangeList(n + 1)

\* Variant of LoanInfoIndexes: range(1, n + 1).
LoanInfoIndexesFromOne(n) == [i \in 1..(IF n > 0 THEN n ELSE 0) |-> i]
\* range(0, n + 1) of generate_loan_info_rows
LoanInfoIndexes(n) == RangeList(n + 1)

\* lender_id=random.randint(0, 5)
LenderIdDraws == 0..5

\* range(num_lenders) of generate_lenders
LenderIndexes(num_lenders) == RangeList(num_lenders)

\* customers = generate_customers()
GenerateCustomers ==
    /\ pc = "customers"
    /\ customers' =
          [j \in 1..Len(CustomerIndexes(DEFAULT_CUSTOMER_NUMBER)) |->
              [customer_id |-> CustomerIndexes(DEFAULT_CUSTOMER_NUMBER)[j]]]
    /\ pc' = "loan_info"
    /\ UNCHANGED <<entry, assocVars, rowVars, loan_info, lenders, statuses,
                   dataset>>

\* loan_info = generate_loan_info_rows(): one generate_loan_info_row(idx) of
\* the comprehension, and the assignment once the list is complete.
GenerateLoanInfoRow ==
    /\ pc = "loan_info"
    /\ LET done == Len(loan_info.loan_id)
           idxs == LoanInfoIndexes(DEFAULT_LOANS_MAX_NUMBER)
       IN  IF done < Len(idxs)
           THEN /\ \E l \in LenderIdDraws :
                      loan_info' =
                         [loan_id |-> Append(loan_info.loan_id, idxs[done + 1]),
                          lender_id |-> loan_info.lender_id \cup {l}]
                /\ pc' = pc
           ELSE /\ loan_info' = loan_info
                /\ pc' = "lenders"
    /\ UNCHANGED <<entry, assocVars, rowVars, customers, lenders, statuses,
                   dataset>>

\* lenders = generate_lenders()
GenerateLenders ==
    /\ pc = "lenders"
    /\ lenders' =
          [j \in 1..Len(LenderIndexes(DEFAULT_NUM_LENDERS)) |->
              [lender_id |-> LenderIndexes(DEFAULT_NUM_LENDERS)[j]]]
    /\ pc' = "statuses"
    /\ UNCHANGED <<entry, assocVars, rowVars, customers, loan_info, statuses,
                   dataset>>

\* statuses = generate_loan_statuses(); the next statement is the call of
\* associate_loans_with_customers().
GenerateLoanStatuses ==
    /\ pc = "statuses"
    /\ statuses' =
          [j \in 1..Len(LOAN_STATUSES) |->
              [loan_status_id |-> j - 1, loan_status_value |-> LOAN_STATUSES[j]]]
    /\ pc' = "associate"
    /\ UNCHANGED <<entry, assocVars, rowVars, customers, loan_info, lenders,
                   dataset>>

\* return {"customers": ..., "loan_info": ..., "lenders": ..., "statuses": ...,
\*         "loan_customer_lookup": ...}
ReturnDataset ==
    /\ pc = "assemble"
    /\ dataset' = <<[customers |-> customers,
                     loan_info |-> loan_info,
                     lenders |-> lenders,
                     statuses |-> statuses,
                     loan_customer_lookup |-> assoc_return[1]]>>
    /\ pc' = "returned"
    /\ UNCHANGED <<entry, assocVars, rowVars, customers, loan_info, lenders,
                   statuses>>

\* generate_all() takes no argument: every count is a default.
Init ==
    /\ entry = "generate_all"
    /\ pc = "customers"
    /\ num_customers = DEFAULT_CUSTOMER_NUMBER
    /\ num_loans = DEFAULT_LOANS_MAX_NUMBER
    /\ Blank

Next ==
    \/ GenerateCustomers
    \/ GenerateLoanInfoRow
    \/ GenerateLenders
    \/ GenerateLoanStatuses
    \/ Associate
    \/ ReturnDataset

Spec == Init /\ [][Next]_vars

----------------------------------------------------------------------------
(* Claims about generate_all, under Spec. *)

DatasetReturned == pc = "returned" /\ Len(dataset) = 1
Tables == dataset[1]
Column(table, field) == [j \in 1..Len(table) |-> table[j][field]]

\* C6: in every dataset generate_all returns, each loan_info row's lender_id
\* is the lender_id of exactly one row of the lenders table.
C6_LenderForeignKey ==
    DatasetReturned =>
        \A l \in Tables.loan_info.lender_id :
           Cardinality({j \in 1..Len(Tables.lenders) :
                           Tables.lenders[j].lender_id = l}) = 1

\* C7: in every dataset generate_all returns, the loan_ids of
\* loan_customer_lookup are loan_ids of loan_info.
C7_LookupLoansExist ==
    DatasetReturned =>
        LoanIdsOf(Tables.loan_customer_lookup)
            \subseteq {Tables.loan_info.loan_id[j] :
                          j \in 1..Len(Tables.loan_info.loan_id)}

\* A dataset came back whose lookup holds the first and the last loan of
\* the pool.
C7_Witness ==
    /\ DatasetReturned
    /\ 0 \in LoanIdsOf(Tables.loan_customer_lookup)
    /\ (num_loans - 1) \in LoanIdsOf(Tables.loan_customer_lookup)

\* C8: a completed run with C customers, L loans and M lenders returns
\* customers with ids 0..C (C+1 rows), lenders with ids 0..M-1 (M rows),
\* statuses GREEN, YELLOW, RED at ids 0, 1, 2, and a loan_customer_lookup
\* of at least C and at most L rows with pairwise distinct loan_ids.
C8_TableShapes ==
    DatasetReturned =>
        /\ Column(Tables.customers, "customer_id")
              = [j \in 1..(DEFAULT_CUSTOMER_NUMBER + 1) |-> j - 1]
        /\ Column(Tables.lenders, "lender_id")
              = [j \in 1..DEFAULT_NUM_LENDERS |-> j - 1]
        /\ Tables.statuses
              = <<[loan_status_id |-> 0, loan_status_value |-> "GREEN"],
                  [loan_status_id |-> 1, loan_status_value |-> "YELLOW"],
                  [loan_status_id |-> 2, loan_status_value |-> "RED"]>>
        /\ Len(Tables.loan_customer_lookup) >= DEFAULT_CUSTOMER_NUMBER
        /\ Len(Tables.loan_customer_lookup) <= DEFAULT_LOANS_MAX_NUMBER
        /\ \A i, j \in 1..Len(Tables.loan_customer_lookup) :
              Tables.loan_customer_lookup[i].loan_id
                 = Tables.loan_customer_lookup[j].loan_id => i = j

\* A dataset came back with more lookup rows than customers.
C8_Witness ==
    /\ DatasetReturned
    /\ Len(Tables.customers) = DEFAULT_CUSTOMER_NUMBER + 1
    /\ Len(Tables.loan_customer_lookup) > DEFAULT_CUSTOMER_NUMBER

====
